---- MODULE Spec2Model ----
(***************************************************************************)
(* Model of verification/reference_model/ReferenceModel.py: the golden     *)
(* reference model of a hardware Viterbi decoder.                          *)
(*                                                                         *)
(* A line of a file is a sequence of one-character strings, so that the    *)
(* conversions int(s), int(s, 16), f"{v}" and f"{v:08X}" are computed and  *)
(* not assumed.  A numpy.float32 is its IEEE-754 bit pattern, held as the  *)
(* record [sign, exp, mant] (1, 8 and 23 bits).  Python lists keep their   *)
(* 0-based indices: a list is a function on 0..len-1.                      *)
(***************************************************************************)
EXTENDS Integers, Sequences, FiniteSets, TLC

VARIABLES
    A,                \* main: the transition table, (N+1) x N
    B,                \* main: the emission table, N x M
    a_lines,          \* main: the lines of A.dat (f.readlines())
    b_lines,          \* main: the lines of B.dat (f.readlines())
    printed,          \* the hex strings hex_to_float printed an error for
    f_in,             \* main: the lines f_in.readline() has returned so far
    current_sequence, \* main: the observation tokens accumulated
    f_out,            \* main: the lines written to Ref_Output.dat
    calls,            \* history: the sequences main passed to run_viterbi
    ret,              \* what the last run_viterbi call returned (with V, B)
    hex_str,          \* codec: the token handed to hex_to_float
    val,              \* codec: what hex_to_float returned
    quiet_snan,       \* the build: float <-> double conversion quiets a NaN
    pc,               \* where the program is
    exc               \* the exception that ended the run, or "none"

vars == <<A, B, a_lines, b_lines, printed, f_in, current_sequence, f_out,
          calls, ret, hex_str, val, quiet_snan, pc, exc>>

(***************************************************************************)
(* Bounds of the model.                                                    *)
(***************************************************************************)
MaxT == 3       \* longest observation sequence handed to run_viterbi alone
MaxLines == 5   \* most lines main reads from the input file
MaxExtra == 1   \* most lines a model file has beyond, or short of, its table

(***************************************************************************)
(* The sizes main reads from N.dat.                                        *)
(***************************************************************************)
N == 2
M == 2

(***************************************************************************)
(* numpy.float32 values.                                                   *)
(***************************************************************************)
F32(s, e, m) == [sign |-> s, exp |-> e, mant |-> m]

PosZero == F32(0, 0, 0)
NegInf == F32(1, 255, 0)
QNaN == F32(0, 255, 4194304)

IsNaN(x) == x.exp = 255 /\ x.mant # 0
IsInf(x) == x.exp = 255 /\ x.mant = 0

RECURSIVE Log2(_)
Log2(k) == IF k <= 1 THEN 0 ELSE 1 + Log2(k \div 2)

\* The value of a finite float32 that is an integer of magnitude < 2^24.
IntOf(x) ==
    IF x.exp = 0 THEN 0
    ELSE LET mag == (8388608 + x.mant) \div (2 ^ (150 - x.exp))
         IN  IF x.sign = 1 THEN 0 - mag ELSE mag

\* The float32 of an integer of magnitude < 2^24 (exact).
OfInt(v) ==
    IF v = 0 THEN PosZero
    ELSE LET mag == IF v < 0 THEN 0 - v ELSE v
             e == Log2(mag)
         IN  F32(IF v < 0 THEN 1 ELSE 0, e + 127, (mag - 2 ^ e) * 2 ^ (23 - e))

\* x + y in single precision, for operands that are NaN, infinite, or
\* integers whose sum has magnitude < 2^24 (the sum is then exact).
F32Add(x, y) ==
    IF IsNaN(x) THEN x
    ELSE IF IsNaN(y) THEN y
    ELSE IF IsInf(x) THEN (IF IsInf(y) /\ y.sign # x.sign THEN QNaN ELSE x)
    ELSE IF IsInf(y) THEN y
    ELSE OfInt(IntOf(x) + IntOf(y))

\* x > y in single precision, for the same operands.
F32Gt(x, y) ==
    IF IsNaN(x) \/ IsNaN(y) THEN FALSE
    ELSE IF IsInf(x) THEN x.sign = 0 /\ ~(IsInf(y) /\ y.sign = 0)
    ELSE IF IsInf(y) THEN y.sign = 1
    ELSE IntOf(x) > IntOf(y)

(***************************************************************************)
(* Python list indexing: a negative index counts from the end, and an      *)
(* index outside -len..len-1 raises IndexError.                            *)
(***************************************************************************)
InRange(len, idx) == idx >= 0 - len /\ idx < len
At(len, idx) == IF idx < 0 THEN idx + len ELSE idx

(***************************************************************************)
(* run_viterbi                                                             *)
(***************************************************************************)
\* ScanPrev with `>=` for `>`: the last of the equal candidates is kept.
RECURSIVE ScanPrevLastOnTie(_, _, _, _, _, _, _)
ScanPrevLastOnTie(n, a_matrix, Vprev, j, i, max_prob, max_state) ==
    IF i >= n THEN [max_prob |-> max_prob, max_state |-> max_state]
    ELSE LET prob == F32Add(Vprev[i], a_matrix[i + 1][j])
         IN  IF ~F32Gt(max_prob, prob)
             THEN ScanPrevLastOnTie(n, a_matrix, Vprev, j, i + 1, prob, i)
             ELSE ScanPrevLastOnTie(n, a_matrix, Vprev, j, i + 1, max_prob, max_state)

\* lines 58-64: the scan over the previous states i, from state i on.
RECURSIVE ScanPrev(_, _, _, _, _, _, _)
ScanPrev(n, a_matrix, Vprev, j, i, max_prob, max_state) ==
    IF i >= n THEN [max_prob |-> max_prob, max_state |-> max_state]
    ELSE LET prob == F32Add(Vprev[i], a_matrix[i + 1][j])
         IN  IF F32Gt(prob, max_prob)
             THEN ScanPrev(n, a_matrix, Vprev, j, i + 1, prob, i)
             ELSE ScanPrev(n, a_matrix, Vprev, j, i + 1, max_prob, max_state)

\* lines 71-76: the scan over the final states j, from state j on.
RECURSIVE ScanFinal(_, _, _, _, _)
ScanFinal(n, Vlast, j, final_prob, final_state) ==
    IF j >= n THEN [final_prob |-> final_prob, final_state |-> final_state]
    ELSE IF F32Gt(Vlast[j], final_prob)
         THEN ScanFinal(n, Vlast, j + 1, Vlast[j], j)
         ELSE ScanFinal(n, Vlast, j + 1, final_prob, final_state)

\* lines 41-68: the tables V and B filled up to row t (0-based), or the
\* IndexError of an observation outside the emission table.
RECURSIVE Forward(_, _, _, _, _, _)
Forward(n, m, a_matrix, b_matrix, obs_sequence, t) ==
    LET obs_idx == obs_sequence[t + 1] - 1
    IN  IF t = 0
        THEN IF ~InRange(m, obs_idx) THEN [raised |-> "IndexError"]
             ELSE [raised |-> "none",
                   V |-> [tt \in {0} |-> [j \in 0..(n - 1) |->
                            F32Add(a_matrix[0][j], b_matrix[j][At(m, obs_idx)])]],
                   B |-> [tt \in {0} |-> [j \in 0..(n - 1) |-> 0]]]
        ELSE LET prev == Forward(n, m, a_matrix, b_matrix, obs_sequence, t - 1)
             IN  IF prev.raised # "none" THEN prev
                 ELSE IF ~InRange(m, obs_idx) THEN [raised |-> "IndexError"]
                 ELSE LET best == [j \in 0..(n - 1) |->
                                     ScanPrev(n, a_matrix, prev.V[t - 1], j, 0, NegInf, 0)]
                          Vt == [j \in 0..(n - 1) |->
                                   F32Add(best[j].max_prob, b_matrix[j][At(m, obs_idx)])]
                          Bt == [j \in 0..(n - 1) |-> best[j].max_state]
                      IN  [raised |-> "none",
                           V |-> [tt \in 0..t |-> IF tt = t THEN Vt ELSE prev.V[tt]],
                           B |-> [tt \in 0..t |-> IF tt = t THEN Bt ELSE prev.B[tt]]]

\* Backtrace reading B[t] for B[t+1].
RECURSIVE BacktraceOffByOne(_, _, _, _)
BacktraceOffByOne(Btab, T, t, path) ==
    IF t < 0 THEN path
    ELSE BacktraceOffByOne(Btab, T, t - 1,
                           [path EXCEPT ![t] = Btab[t][path[t + 1] - 1] + 1])

\* lines 78-83: path[t..T-1] as a 0-based list of 1-indexed states, given
\* path[t+1..T-1].
RECURSIVE Backtrace(_, _, _, _)
Backtrace(Btab, T, t, path) ==
    IF t < 0 THEN path
    ELSE Backtrace(Btab, T, t - 1,
                   [path EXCEPT ![t] = Btab[t + 1][path[t + 1] - 1] + 1])

\* A Python list (function on 0..len-1) as a sequence.
ListSeq(list, len) == [k \in 1..len |-> list[k - 1]]

run_viterbi(n, m, a_matrix, b_matrix, obs_sequence) ==
    LET T == Len(obs_sequence)
    IN  IF T = 0
        THEN [raised |-> "none", path |-> <<>>, final_prob |-> NegInf,
              final_state |-> 0, V |-> <<>>, B |-> <<>>]
        ELSE LET fw == Forward(n, m, a_matrix, b_matrix, obs_sequence, T - 1)
             IN  IF fw.raised # "none"
                 THEN [raised |-> fw.raised, path |-> <<>>, final_prob |-> NegInf,
                       final_state |-> 0, V |-> <<>>, B |-> <<>>]
                 ELSE LET fin == ScanFinal(n, fw.V[T - 1], 0, NegInf, 0)
                          path0 == [t \in 0..(T - 1) |->
                                      IF t = T - 1 THEN fin.final_state + 1 ELSE 0]
                          path == Backtrace(fw.B, T, T - 2, path0)
                      IN  [raised |-> "none", path |-> ListSeq(path, T),
                           final_prob |-> fin.final_prob,
                           final_state |-> fin.final_state, V |-> fw.V, B |-> fw.B]

\* No call of run_viterbi yet.
NoRet == [raised |-> "none", path |-> <<>>, final_prob |-> NegInf,
          final_state |-> 0, V |-> <<>>, B |-> <<>>]

(***************************************************************************)
(* The decoder alone: run_viterbi called once on a model and a sequence.   *)
(***************************************************************************)
LogProbs == {NegInf, OfInt(0 - 1), PosZero}
Emissions == {OfInt(0 - 2), PosZero}

RECURSIVE SeqsUpTo(_, _)
SeqsUpTo(S, k) ==
    IF k = 0 THEN {<<>>}
    ELSE LET shorter == SeqsUpTo(S, k - 1)
         IN  shorter \cup {Append(s, x) : s \in {q \in shorter : Len(q) = k - 1}, x \in S}

InitViterbi ==
    /\ A \in [0..N -> [0..(N - 1) -> LogProbs]]
    /\ B \in [0..(N - 1) -> [0..(M - 1) -> Emissions]]
    /\ current_sequence \in SeqsUpTo(1..M, MaxT)
    /\ a_lines = <<>> /\ b_lines = <<>> /\ printed = <<>>
    /\ f_in = <<>> /\ f_out = <<>> /\ calls = <<>>
    /\ ret = NoRet
    /\ hex_str = <<>> /\ val = PosZero /\ quiet_snan = FALSE
    /\ pc = "call" /\ exc = "none"

CallViterbi ==
    /\ pc = "call"
    /\ ret' = run_viterbi(N, M, A, B, current_sequence)
    /\ pc' = "returned"
    /\ UNCHANGED <<A, B, a_lines, b_lines, printed, f_in, current_sequence,
                   f_out, calls, hex_str, val, quiet_snan, exc>>

NextViterbi == CallViterbi

SpecViterbi == InitViterbi /\ [][NextViterbi]_vars

(***************************************************************************)
(* Strings.                                                                *)
(***************************************************************************)
NL == "\n"
Sentinel == <<"F", "F", "F", "F", "F", "F", "F", "F">>

\* str.strip(): the line without its leading and trailing whitespace (the
\* only whitespace of the model's lines is the newline that ends them).
RECURSIVE strip(_)
strip(s) ==
    IF s = <<>> THEN s
    ELSE IF Head(s) = NL THEN strip(Tail(s))
    ELSE IF s[Len(s)] = NL THEN strip(SubSeq(s, 1, Len(s) - 1))
    ELSE s

HexDigits == <<"0", "1", "2", "3", "4", "5", "6", "7",
               "8", "9", "A", "B", "C", "D", "E", "F">>
LowerHexDigits == <<"0", "1", "2", "3", "4", "5", "6", "7",
                    "8", "9", "a", "b", "c", "d", "e", "f">>

IsDigit(c, base) ==
    \E d \in 1..base : HexDigits[d] = c \/ LowerHexDigits[d] = c
DigitVal(c) ==
    (CHOOSE d \in 1..16 : HexDigits[d] = c \/ LowerHexDigits[d] = c) - 1

\* int(s, base) for base 10 or 16: an optional sign and at least one digit
\* (prefixes, underscores and inner whitespace are not in the model's
\* alphabet).  The magnitude is held as hi * 2^16 + lo.
RECURSIVE Digits(_, _, _, _)
Digits(s, base, hi, lo) ==
    IF s = <<>> THEN [ok |-> TRUE, hi |-> hi, lo |-> lo]
    ELSE IF ~IsDigit(Head(s), base) THEN [ok |-> FALSE, hi |-> 0, lo |-> 0]
    ELSE LET low == lo * base + DigitVal(Head(s))
         IN  Digits(Tail(s), base, hi * base + low \div 65536, low % 65536)

int(s, base) ==
    LET signed == s # <<>> /\ Head(s) \in {"-", "+"}
        body == IF signed THEN Tail(s) ELSE s
        mag == Digits(body, base, 0, 0)
    IN  IF body = <<>> \/ ~mag.ok
        THEN [raised |-> "ValueError", neg |-> FALSE, hi |-> 0, lo |-> 0]
        ELSE [raised |-> "none",
              neg |-> signed /\ Head(s) = "-" /\ (mag.hi # 0 \/ mag.lo # 0),
              hi |-> mag.hi, lo |-> mag.lo]

\* The value of an int(s, 10) result that fits the model's integers.
IntValue(r) == IF r.neg THEN 0 - (r.hi * 65536 + r.lo) ELSE r.hi * 65536 + r.lo

\* f"{v}" of an integer.
RECURSIVE DecDigits(_)
DecDigits(v) ==
    IF v < 10 THEN <<HexDigits[v + 1]>>
    ELSE Append(DecDigits(v \div 10), HexDigits[(v % 10) + 1])

str(v) == IF v < 0 THEN <<"-">> \o DecDigits(0 - v) ELSE DecDigits(v)

\* f"{v:08X}" of an unsigned 32-bit integer hi * 2^16 + lo.
Hex4(h) == <<HexDigits[(h \div 4096) + 1], HexDigits[((h \div 256) % 16) + 1],
             HexDigits[((h \div 16) % 16) + 1], HexDigits[(h % 16) + 1]>>
Format08X(hi, lo) == Hex4(hi) \o Hex4(lo)

(***************************************************************************)
(* The codec: hex_to_float and write_output_val.                           *)
(***************************************************************************)
\* A float32 converted to a Python float (a double) or back: the conversion
\* sets the quiet bit of a NaN on the builds where quiet_snan holds.
ThroughDouble(x) ==
    IF quiet_snan /\ IsNaN(x) /\ x.mant < 4194304
    THEN [x EXCEPT !.mant = x.mant + 4194304]
    ELSE x

\* struct.unpack('f', struct.pack('I', int_val))[0], then np.float32(...)
Unpack(hi, lo) ==
    ThroughDouble(F32(hi \div 32768, (hi \div 128) % 256, (hi % 128) * 65536 + lo))

hex_to_float(s) ==
    LET int_val == int(s, 16)
    IN  IF int_val.raised # "none" \/ int_val.neg \/ int_val.hi >= 65536
        THEN [ret |-> PosZero, error |-> TRUE]
        ELSE [ret |-> Unpack(int_val.hi, int_val.lo), error |-> FALSE]

\* write_output_val(f, val, is_float=True): the line written.
write_output_float(x) ==
    LET float32_val == ThroughDouble(x)
    IN  Format08X(float32_val.sign * 32768 + float32_val.exp * 128
                      + float32_val.mant \div 65536,
                  float32_val.mant % 65536) \o <<NL>>

\* write_output_val(f, val) of an integer: the line written.
write_output_int(v) == str(v) \o <<NL>>

\* write_output_val(f, val) of a string: the line written.
write_output_str(s) == s \o <<NL>>

(***************************************************************************)
(* The codec alone: a token converted by hex_to_float, and the result      *)
(* written by write_output_val(is_float=True).                             *)
(***************************************************************************)
Signs == {0, 1}
Exps == {0, 1, 127, 254, 255}
Mants == {0, 1, 2097152, 4194304, 4194305, 8388607}

PatternTokens ==
    {Format08X(s * 32768 + e * 128 + m \div 65536, m % 65536) :
        s \in Signs, e \in Exps, m \in Mants}

MalformedTokens ==
    {<<>>, <<"Z", "Z", "Z", "Z", "Z", "Z", "Z", "Z">>,
     <<"1">> \o Sentinel, <<"-", "1">>}

InitCodec ==
    /\ hex_str \in PatternTokens \cup MalformedTokens
    /\ quiet_snan \in BOOLEAN
    /\ val = PosZero
    /\ A = <<>> /\ B = <<>> /\ a_lines = <<>> /\ b_lines = <<>>
    /\ printed = <<>> /\ f_in = <<>> /\ current_sequence = <<>>
    /\ f_out = <<>> /\ calls = <<>> /\ ret = NoRet
    /\ pc = "token" /\ exc = "none"

Decode ==
    /\ pc = "token"
    /\ LET r == hex_to_float(hex_str)
       IN  /\ val' = r.ret
           /\ printed' = IF r.error THEN Append(printed, hex_str) ELSE printed
    /\ pc' = "decoded"
    /\ UNCHANGED <<A, B, a_lines, b_lines, f_in, current_sequence, f_out,
                   calls, ret, hex_str, quiet_snan, exc>>

Encode ==
    /\ pc = "decoded"
    /\ f_out' = Append(f_out, write_output_float(val))
    /\ pc' = "encoded"
    /\ UNCHANGED <<A, B, a_lines, b_lines, printed, f_in, current_sequence,
                   calls, ret, hex_str, val, quiet_snan, exc>>

NextCodec == Decode \/ Encode

SpecCodec == InitCodec /\ [][NextCodec]_vars

\* C7: every 8-digit uppercase token that is converted and written back
\* comes out as the same 8 digits.
C7_RoundTrip ==
    (pc = "encoded" /\ hex_str \in PatternTokens)
        => f_out = <<hex_str \o <<NL>>>>

(***************************************************************************)
(* main: loading A.dat and B.dat.                                          *)
(***************************************************************************)
\* lines 99-105 and 111-116: the table filled from the lines of a file, the
\* tokens hex_to_float printed an error for, and the IndexError of
\* lines[idx] when the file is shorter than the table.
LoadTable(lines, rows, cols) ==
    LET need == rows * cols
        got == IF Len(lines) < need THEN Len(lines) ELSE need
        tokens == [k \in 1..got |-> strip(lines[k])]
    IN  [raised |-> IF Len(lines) < need THEN "IndexError" ELSE "none",
         table |-> [i \in 0..(rows - 1) |-> [j \in 0..(cols - 1) |->
                      IF i * cols + j < got
                      THEN hex_to_float(tokens[i * cols + j + 1]).ret
                      ELSE PosZero]],
         printed |-> SelectSeq(tokens, LAMBDA tok : hex_to_float(tok).error)]

LoadA ==
    /\ pc = "load_a"
    /\ LET r == LoadTable(a_lines, N + 1, N)
       IN  /\ A' = r.table
           /\ printed' = printed \o r.printed
           /\ pc' = IF r.raised = "none" THEN "load_b" ELSE "raised"
           /\ exc' = r.raised
    /\ UNCHANGED <<B, a_lines, b_lines, f_in, current_sequence, f_out, calls,
                   ret, hex_str, val, quiet_snan>>

LoadB ==
    /\ pc = "load_b"
    /\ LET r == LoadTable(b_lines, N, M)
       IN  /\ B' = r.table
           /\ printed' = printed \o r.printed
           /\ pc' = IF r.raised = "none" THEN "loop" ELSE "raised"
           /\ exc' = r.raised
    /\ UNCHANGED <<A, a_lines, b_lines, f_in, current_sequence, f_out, calls,
                   ret, hex_str, val, quiet_snan>>

MinusOne == <<"B", "F", "8", "0", "0", "0", "0", "0", NL>>
NotHex == <<"Z", "Z", "Z", "Z", "Z", "Z", "Z", "Z", NL>>
ModelLines == {MinusOne, NotHex}

\* The files of `need` lines, and of up to MaxExtra lines fewer or more.
FilesOf(need) ==
    UNION {[1..k -> ModelLines] : k \in (need - MaxExtra)..(need + MaxExtra)}

InitLoad ==
    /\ a_lines \in FilesOf((N + 1) * N)
    /\ b_lines \in FilesOf(N * M)
    /\ A = <<>> /\ B = <<>> /\ printed = <<>>
    /\ f_in = <<>> /\ current_sequence = <<>> /\ f_out = <<>> /\ calls = <<>>
    /\ ret = NoRet
    /\ hex_str = <<>> /\ val = PosZero /\ quiet_snan = FALSE
    /\ pc = "load_a" /\ exc = "none"

NextLoad == LoadA \/ LoadB

SpecLoad == InitLoad /\ [][NextLoad]_vars

(***************************************************************************)
(* main: the loop over Input.dat.                                          *)
(***************************************************************************)
EOF == <<>>

\* PathLines without the first state (for state in path[1:]).
PathLinesSkipFirst(path) ==
    [k \in 1..(Len(path) - 1) |-> write_output_int(path[k + 1])]

\* lines 134-135: the lines written for the path.
PathLines(path) == [k \in 1..Len(path) |-> write_output_int(path[k])]

\* lines 134-139: the lines written for one decoded sequence.
Block(r) ==
    PathLines(r.path)
        \o <<write_output_float(r.final_prob), write_output_str(Sentinel)>>

\* The accumulator left as it is after a sequence was processed.
NewSequenceKept == current_sequence

\* line 141: the accumulator after a sequence was processed.
NewSequence == <<>>

\* line 148: the test for the final marker.
IsFinalMarker(next_line) == next_line = <<"0">>

\* The lines f_in.readline() can return when `read` lines were read.
InputLines ==
    {write_output_str(tok) :
        tok \in {Sentinel, <<"0">>, <<"1">>, <<"2">>, <<"3">>,
                 <<"-", "1">>, <<"0", "0">>, <<"x">>}}
Readable(read) == IF read < MaxLines THEN InputLines \cup {EOF} ELSE {EOF}

\* End of file flushing the accumulated tokens as one more sequence.
OnEOFFlush(line) ==
    LET r == run_viterbi(N, M, A, B, current_sequence)
    IN  /\ f_in' = Append(f_in, line)
        /\ pc' = "done"
        /\ IF current_sequence # <<>> /\ r.raised = "none"
           THEN /\ calls' = Append(calls, current_sequence)
                /\ ret' = r
                /\ f_out' = f_out \o Block(r)
                /\ current_sequence' = <<>>
           ELSE UNCHANGED <<current_sequence, f_out, calls, ret>>
        /\ UNCHANGED exc

\* lines 123-124: end of file in the main loop.
OnEOF(line) ==
    /\ f_in' = Append(f_in, line)
    /\ pc' = "done"
    /\ UNCHANGED <<current_sequence, f_out, calls, ret, exc>>

\* lines 128-152: a sentinel in the main loop.
OnSentinel(line) ==
    LET r == run_viterbi(N, M, A, B, current_sequence)
    IN  /\ calls' = Append(calls, current_sequence)
        /\ ret' = r
        /\ IF r.raised # "none"
           THEN /\ pc' = "raised" /\ exc' = r.raised
                /\ f_in' = Append(f_in, line)
                /\ UNCHANGED <<current_sequence, f_out>>
           ELSE \E raw \in Readable(Len(f_in) + 1) :
                  LET next_line == strip(raw)
                      v == int(next_line, 10)
                  IN  /\ f_in' = f_in \o <<line, raw>>
                      /\ IF raw = EOF
                         THEN /\ f_out' = f_out \o Block(r)
                              /\ current_sequence' = NewSequence
                              /\ pc' = "done" /\ exc' = "none"
                         ELSE IF IsFinalMarker(next_line)
                         THEN /\ f_out' = f_out \o Block(r) \o <<write_output_int(0)>>
                              /\ current_sequence' = NewSequence
                              /\ pc' = "done" /\ exc' = "none"
                         ELSE IF v.raised # "none"
                         THEN /\ f_out' = f_out \o Block(r)
                              /\ current_sequence' = NewSequence
                              /\ pc' = "raised" /\ exc' = v.raised
                         ELSE /\ f_out' = f_out \o Block(r)
                              /\ current_sequence' = Append(NewSequence, IntValue(v))
                              /\ pc' = "loop" /\ exc' = "none"

\* lines 154-155: any other line in the main loop.
OnToken(line) ==
    LET v == int(strip(line), 10)
    IN  /\ f_in' = Append(f_in, line)
        /\ IF strip(line) = <<"0">>
           THEN UNCHANGED <<current_sequence, pc, exc>>
           ELSE IF v.raised # "none"
           THEN /\ pc' = "raised" /\ exc' = v.raised
                /\ UNCHANGED current_sequence
           ELSE /\ current_sequence' = Append(current_sequence, IntValue(v))
                /\ UNCHANGED <<pc, exc>>
        /\ UNCHANGED <<f_out, calls, ret>>

\* lines 121-155: one iteration of the loop, on a line of `lines`.
Iterate(lines) ==
    /\ pc = "loop"
    /\ \E line \in Readable(Len(f_in)) \cap lines :
          IF line = EOF THEN OnEOF(line)
          ELSE IF strip(line) = Sentinel THEN OnSentinel(line)
          ELSE OnToken(line)
    /\ UNCHANGED <<A, B, a_lines, b_lines, printed, hex_str, val, quiet_snan>>

LoopEOF == Iterate({EOF})
LoopSentinel == Iterate({line \in InputLines : strip(line) = Sentinel})
LoopToken == Iterate({line \in InputLines : strip(line) # Sentinel})

\* Two loaded models: the all-zero tables, and tables that tell the
\* states and the symbols apart.
ZeroA == [i \in 0..N |-> [j \in 0..(N - 1) |-> PosZero]]
ZeroB == [j \in 0..(N - 1) |-> [k \in 0..(M - 1) |-> PosZero]]
SkewA == [i \in 0..N |-> [j \in 0..(N - 1) |->
            IF i = N /\ j = 0 THEN NegInf
            ELSE IF (i + j) % 2 = 0 THEN PosZero ELSE OfInt(0 - 1)]]
SkewB == [j \in 0..(N - 1) |-> [k \in 0..(M - 1) |->
            IF j = k THEN PosZero ELSE OfInt(0 - 2)]]

InitMain ==
    /\ \E mdl \in {<<ZeroA, ZeroB>>, <<SkewA, SkewB>>} : A = mdl[1] /\ B = mdl[2]
    /\ a_lines = <<>> /\ b_lines = <<>> /\ printed = <<>>
    /\ f_in = <<>> /\ current_sequence = <<>> /\ f_out = <<>> /\ calls = <<>>
    /\ ret = NoRet
    /\ hex_str = <<>> /\ val = PosZero /\ quiet_snan = FALSE
    /\ pc = "loop" /\ exc = "none"

NextMain == LoopEOF \/ LoopSentinel \/ LoopToken

SpecMain == InitMain /\ [][NextMain]_vars

(***************************************************************************)
(* Properties of run_viterbi, under SpecViterbi.                           *)
(***************************************************************************)
Returned == pc = "returned" /\ ret.raised = "none"

\* The state paths s_0..s_{T-1} of a sequence of T observations.
StatePaths(T) == [0..(T - 1) -> 0..(N - 1)]

\* transition[0][s_0] + emission[s_0][o_0-1]
\*   + sum for t=1..t of (transition[s_{t-1}+1][s_t] + emission[s_t][o_t-1])
RECURSIVE PathScore(_, _)
PathScore(s, t) ==
    IF t = 0
    THEN F32Add(A[0][s[0]], B[s[0]][current_sequence[1] - 1])
    ELSE F32Add(PathScore(s, t - 1),
                F32Add(A[s[t - 1] + 1][s[t]], B[s[t]][current_sequence[t + 1] - 1]))

\* C1: the returned log-probability is the maximum of the scores of all the
\* N^T state paths, and the returned path is a path with that score.
C1_MaxOverPaths ==
    (Returned /\ current_sequence # <<>>) =>
        LET T == Len(current_sequence)
            own == [t \in 0..(T - 1) |-> ret.path[t + 1] - 1]
        IN  /\ \A s \in StatePaths(T) : ~F32Gt(PathScore(s, T - 1), ret.final_prob)
            /\ \E s \in StatePaths(T) : PathScore(s, T - 1) = ret.final_prob
            /\ own \in StatePaths(T)
            /\ PathScore(own, T - 1) = ret.final_prob

\* A longest sequence whose best path is finite, changes state, and beats
\* another finite path.
C1_Witness ==
    /\ Returned /\ Len(current_sequence) = MaxT
    /\ ~IsInf(ret.final_prob)
    /\ ret.path[1] # ret.path[2]
    /\ \E s \in StatePaths(MaxT) :
          /\ ~IsInf(PathScore(s, MaxT - 1))
          /\ F32Gt(ret.final_prob, PathScore(s, MaxT - 1))

\* i is the smallest index of 0..N-1 at which f is greatest.
SmallestArgmax(f, i) ==
    /\ \A k \in 0..(N - 1) : ~F32Gt(f[k], f[i])
    /\ \A k \in 0..(i - 1) : F32Gt(f[i], f[k])

\* The candidates of B[t][j]: V[t-1][i] + transition[i+1][j].
Candidates(t, j) == [i \in 0..(N - 1) |-> F32Add(ret.V[t - 1][i], A[i + 1][j])]

\* C2: on equal maxima the lowest index is chosen, for every B[t][j] and
\* for final_state, the all-minus-infinity case included.
C2_LowestIndexOnTie ==
    (Returned /\ current_sequence # <<>>) =>
        LET T == Len(current_sequence)
        IN  /\ \A t \in 1..(T - 1) : \A j \in 0..(N - 1) :
                  SmallestArgmax(Candidates(t, j), ret.B[t][j])
            /\ SmallestArgmax(ret.V[T - 1], ret.final_state)
            /\ ret.path[T] = ret.final_state + 1

\* A finite tie between the candidates of one B[t][j], and all candidates
\* of another at minus infinity.
C2_Witness ==
    /\ Returned /\ Len(current_sequence) >= 2
    /\ \E t \in 1..(Len(current_sequence) - 1) : \E j \in 0..(N - 1) :
          /\ Candidates(t, j)[0] = Candidates(t, j)[1]
          /\ ~IsInf(Candidates(t, j)[0])
          /\ ret.B[t][j] = 0
    /\ \E t \in 1..(Len(current_sequence) - 1) : \E j \in 0..(N - 1) :
          /\ \A i \in 0..(N - 1) : Candidates(t, j)[i] = NegInf
          /\ ret.B[t][j] = 0

(***************************************************************************)
(* Properties of the codec and of the model load, under SpecCodec and      *)
(* SpecLoad.                                                               *)
(***************************************************************************)
\* A token that is a hexadecimal integer representable in 32 bits.
IsHex32(tok) ==
    /\ Len(tok) \in 1..8
    /\ \A k \in 1..Len(tok) : \E d \in 1..16 : tok[k] = HexDigits[d]

\* C6: a malformed token of A.dat or B.dat aborts the load: main goes past a
\* file only when every token it read from it is well formed.
C6_MalformedTokenAborts ==
    /\ pc \in {"load_b", "loop"} =>
          \A k \in 1..((N + 1) * N) : IsHex32(strip(a_lines[k]))
    /\ pc = "loop" =>
          \A k \in 1..(N * M) : IsHex32(strip(b_lines[k]))

\* C9: the load fails unless A.dat has exactly (N+1)*N lines and B.dat has
\* exactly N*M lines.
C9_LineCountsChecked ==
    /\ pc \in {"load_b", "loop"} => Len(a_lines) = (N + 1) * N
    /\ pc = "loop" => Len(b_lines) = N * M

(***************************************************************************)
(* Properties of the main loop, under SpecMain.                            *)
(***************************************************************************)
SentinelLine == Sentinel \o <<NL>>
ZeroLine == <<"0", NL>>

\* The block of a sequence: its path lines, its probability line, the
\* sentinel line.
ExpectedBlock(seq) ==
    LET r == run_viterbi(N, M, A, B, seq)
    IN  [k \in 1..Len(r.path) |-> str(r.path[k]) \o <<NL>>]
            \o <<write_output_float(r.final_prob), SentinelLine>>

RECURSIVE ExpectedBlocks(_)
ExpectedBlocks(seqs) ==
    IF seqs = <<>> THEN <<>>
    ELSE ExpectedBlock(Head(seqs)) \o ExpectedBlocks(Tail(seqs))

\* The lines read as a batch: sequences of symbols of 1..M, each closed by a
\* sentinel and each but the first non-empty (the line after a sentinel is
\* the first token of the next sequence), and a "0" line directly after the
\* last sentinel; `rest` is what was read after that "0".
RECURSIVE BatchWalk(_, _, _)
BatchWalk(lines, cur, acc) ==
    IF lines = <<>> THEN [ok |-> FALSE, seqs |-> <<>>, rest |-> <<>>]
    ELSE IF Head(lines) = SentinelLine
    THEN IF cur = <<>> /\ acc # <<>> THEN [ok |-> FALSE, seqs |-> <<>>, rest |-> <<>>]
         ELSE IF Tail(lines) # <<>> /\ Head(Tail(lines)) = ZeroLine
         THEN [ok |-> TRUE, seqs |-> Append(acc, cur), rest |-> Tail(Tail(lines))]
         ELSE BatchWalk(Tail(lines), <<>>, Append(acc, cur))
    ELSE IF \E k \in 1..M : Head(lines) = str(k) \o <<NL>>
    THEN BatchWalk(Tail(lines),
                   Append(cur, CHOOSE k \in 1..M : Head(lines) = str(k) \o <<NL>>), acc)
    ELSE [ok |-> FALSE, seqs |-> <<>>, rest |-> <<>>]

Batch == BatchWalk(f_in, <<>>, <<>>)

\* C3: a batch of k sequences and the "0" line gives the k blocks in input
\* order and one "0" line, and nothing is read or written after that "0".
C3_BatchInOrder ==
    Batch.ok =>
        /\ pc = "done" /\ exc = "none"
        /\ Batch.rest = <<>>
        /\ calls = Batch.seqs
        /\ f_out = ExpectedBlocks(Batch.seqs) \o <<ZeroLine>>

C3_Witness ==
    /\ Batch.ok /\ pc = "done"
    /\ Len(Batch.seqs) = 2
    /\ ExpectedBlock(Batch.seqs[1]) # ExpectedBlock(Batch.seqs[2])

\* The number of lines of each sentinel-closed block of the output.
RECURSIVE BlockSizes(_, _, _)
BlockSizes(lines, cur, acc) ==
    IF lines = <<>> THEN acc
    ELSE IF Head(lines) = SentinelLine
    THEN BlockSizes(Tail(lines), 0, Append(acc, cur + 1))
    ELSE BlockSizes(Tail(lines), cur + 1, acc)

\* The number of observation tokens of each sentinel-closed sequence of the
\* input: its lines other than the "0" lines.
RECURSIVE ObsCounts(_, _, _)
ObsCounts(lines, cur, acc) ==
    IF lines = <<>> THEN acc
    ELSE IF Head(lines) = SentinelLine
    THEN ObsCounts(Tail(lines), 0, Append(acc, cur))
    ELSE IF Head(lines) \in {ZeroLine, EOF}
    THEN ObsCounts(Tail(lines), cur, acc)
    ELSE ObsCounts(Tail(lines), cur + 1, acc)

\* C4: a returned path has as many elements as the sequence decoded, and
\* every block written has as many state lines as its sequence had tokens.
C4_PathLength ==
    LET sizes == BlockSizes(f_out, 0, <<>>)
        counts == ObsCounts(f_in, 0, <<>>)
    IN  /\ (calls # <<>> /\ ret.raised = "none") =>
              Len(ret.path) = Len(calls[Len(calls)])
        /\ Len(sizes) <= Len(counts)
        /\ \A i \in 1..Len(sizes) : sizes[i] = counts[i] + 2

\* An empty sequence, then a sequence of one token, both written.
C4_Witness ==
    /\ BlockSizes(f_out, 0, <<>>) = <<2, 3>>
    /\ Len(calls) = 2 /\ Len(calls[2]) = 1 /\ Len(ret.path) = 1

\* C5: the output of a run that finished ends with a "0" line.
C5_EndsWithZeroLine ==
    pc = "done" => (f_out # <<>> /\ f_out[Len(f_out)] = ZeroLine)

\* C8: no value below 1 is accumulated or passed to run_viterbi.
C8_OnlyPositiveTokens ==
    /\ \A k \in 1..Len(current_sequence) : current_sequence[k] >= 1
    /\ \A i \in 1..Len(calls) : \A k \in 1..Len(calls[i]) : calls[i][k] >= 1

\* The sequences of the input that a sentinel closed.
RECURSIVE ClosedSeqs(_, _, _)
ClosedSeqs(lines, cur, acc) ==
    IF lines = <<>> THEN acc
    ELSE IF Head(lines) = SentinelLine
    THEN ClosedSeqs(Tail(lines), <<>>, Append(acc, cur))
    ELSE IF Head(lines) \in {ZeroLine, EOF}
    THEN ClosedSeqs(Tail(lines), cur, acc)
    ELSE ClosedSeqs(Tail(lines), Append(cur, IntValue(int(strip(Head(lines)), 10))), acc)

\* The number of observation tokens read after the last sentinel.
RECURSIVE OpenCount(_, _)
OpenCount(lines, cur) ==
    IF lines = <<>> THEN cur
    ELSE IF Head(lines) = SentinelLine THEN OpenCount(Tail(lines), 0)
    ELSE IF Head(lines) \in {ZeroLine, EOF} THEN OpenCount(Tail(lines), cur)
    ELSE OpenCount(Tail(lines), cur + 1)

\* The input ended while tokens no sentinel closed were accumulated.
EndedMidSequence ==
    /\ pc = "done" /\ f_in # <<>> /\ f_in[Len(f_in)] = EOF
    /\ OpenCount(f_in, 0) > 0

\* C10: at end of file in the middle of a sequence the partial sequence is
\* not decoded and not written: the output holds the blocks of the closed
\* sequences and nothing else.
C10_NoPartialBlock ==
    EndedMidSequence =>
        /\ calls = ClosedSeqs(f_in, <<>>, <<>>)
        /\ f_out = ExpectedBlocks(calls)

C10_Witness ==
    /\ EndedMidSequence
    /\ Len(calls) = 1 /\ calls[1] # <<>>
    /\ Len(current_sequence) = 2

====
